---- MODULE Spec2Model ----
(***************************************************************************)
(* elf2rel: conversion of a PowerPC ELF object into a GameCube/Wii REL     *)
(* module (src/elf2rel/elf2rel.cpp).  The model follows main() phase by    *)
(* phase: symbol maps, section layout, relocation collection, sorting,     *)
(* relocation stream encoding with early resolution, final header.         *)
(*                                                                         *)
(* 32-bit words are kept as the value an `int` holds (two's complement,    *)
(* MinInt..MaxInt); a uint32_t is the same bit pattern, so 0xFFFFFFFF is   *)
(* -1 and unsigned order is ULess.                                         *)
(***************************************************************************)
EXTENDS Integers, Sequences, FiniteSets, TLC

(***************************************************************************)
(* Bounds of the explored inputs.                                          *)
(***************************************************************************)
MaxSections == 3
MaxRelas == 4
MaxFiles == 2

(***************************************************************************)
(* 32-bit arithmetic.                                                      *)
(***************************************************************************)
MaxInt == 2147483647
MinInt == -2147483647 - 1

\* a + b modulo 2^32, as an int
Add32(a, b) ==
  IF a >= 0 /\ b > MaxInt - a
    THEN ((a - MaxInt) - 1) + ((b - MaxInt) - 1)
    ELSE IF a < 0 /\ b < MinInt - a
      THEN ((a + MaxInt) + 1) + ((b + MaxInt) + 1)
      ELSE a + b

\* a - b modulo 2^32, as an int
Sub32(a, b) == IF b = MinInt THEN Add32(a, MinInt) ELSE Add32(a, 0 - b)

\* a < b compared as uint32_t
ULess(a, b) ==
  IF (a < 0) = (b < 0) THEN a < b ELSE b < 0

\* bit i (0..31) of a word
Bit(w, i) == IF i = 31 THEN (IF w < 0 THEN 1 ELSE 0) ELSE (w \div (2 ^ i)) % 2

RECURSIVE SumBits(_, _)
SumBits(f, i) == IF i < 0 THEN 0 ELSE f[i] * (2 ^ i) + SumBits(f, i - 1)

FromBits(f) == (IF f[31] = 1 THEN MinInt ELSE 0) + SumBits(f, 30)

\* a | b
Or32(a, b) == FromBits([i \in 0..31 |-> IF Bit(a, i) = 1 \/ Bit(b, i) = 1 THEN 1 ELSE 0])

\* a & b
And32(a, b) == FromBits([i \in 0..31 |-> IF Bit(a, i) = 1 /\ Bit(b, i) = 1 THEN 1 ELSE 0])

\* byte i (0 = least significant) of a word
ByteOf(w, i) == (w \div (256 ^ i)) % 256

(***************************************************************************)
(* Constants of the ELF and REL formats used by the source.                *)
(***************************************************************************)
SHT_NOBITS == 8
SHF_EXECINSTR == 4
R_PPC_NONE == 0
R_PPC_ADDR32 == 1
R_PPC_ADDR16_LO == 4
R_PPC_ADDR16_HA == 6
R_PPC_REL24 == 10
R_PPC_REL32 == 26
R_DOLPHIN_NOP == 201
R_DOLPHIN_SECTION == 202
R_DOLPHIN_END == 203
\* the cases of the switch before an entry is written
SupportedTypes == (0..10) \cup {R_DOLPHIN_NOP, R_DOLPHIN_SECTION, R_DOLPHIN_END}
\* the mask of the branch displacement field, and the saturation step
Rel24Mask == 67108860
MaxDelta == 65535
\* the module's own id (--rel-id)
moduleID == 33
\* the value the module and section cursors start at
NoneYet == -1
\* bytes of one section-info, import-info or relocation entry
EntrySize == 8

(***************************************************************************)
(* Byte buffer primitives: big-endian append and read.                     *)
(***************************************************************************)
Save8(buffer, v) == Append(buffer, ByteOf(v, 0))

Save16(buffer, v) == buffer \o <<ByteOf(v, 1), ByteOf(v, 0)>>

Save32(buffer, v) == buffer \o <<ByteOf(v, 3), ByteOf(v, 2), ByteOf(v, 1), ByteOf(v, 0)>>

\* the big-endian 32-bit word at byte offset off (0-based)
Load32(buffer, off) ==
  LET b0 == buffer[off + 1]
  IN  (IF b0 >= 128 THEN b0 - 256 ELSE b0) * 16777216
      + buffer[off + 2] * 65536 + buffer[off + 3] * 256 + buffer[off + 4]

Load16(buffer, off) == buffer[off + 1] * 256 + buffer[off + 2]

\* std::copy(src.begin(), src.end(), buffer.begin() + off)
CopyAt(buffer, off, src) ==
  [i \in 1..Len(buffer) |->
     IF i > off /\ i <= off + Len(src) THEN src[i - off] ELSE buffer[i]]

Zeros(n) == [i \in 1..n |-> 0]

ZeroHeader ==
  [id |-> 0, sectionCount |-> 0, sectionInfoOffset |-> 0, totalBssSize |-> 0,
   relocationOffset |-> 0, importInfoOffset |-> 0, importInfoSize |-> 0,
   prologSection |-> 0, epilogSection |-> 0, unresolvedSection |-> 0,
   prologOffset |-> 0, epilogOffset |-> 0, unresolvedOffset |-> 0,
   maxAlign |-> 0, maxBssAlign |-> 0, fixedDataSize |-> 0]

writeModuleHeader(buffer, version, h) ==
  LET b1 == Save32(Save32(Save32(Save32(buffer, h.id), 0), 0), h.sectionCount)
      b2 == Save32(Save32(Save32(Save32(b1, h.sectionInfoOffset), 0), 0), version)
      b3 == Save32(Save32(Save32(Save32(b2, h.totalBssSize), h.relocationOffset),
                          h.importInfoOffset), h.importInfoSize)
      b4 == Save8(Save8(Save8(Save8(b3, h.prologSection), h.epilogSection),
                        h.unresolvedSection), 0)
      b5 == Save32(Save32(Save32(b4, h.prologOffset), h.epilogOffset), h.unresolvedOffset)
      b6 == IF version >= 2 THEN Save32(Save32(b5, h.maxAlign), h.maxBssAlign) ELSE b5
  IN  IF version >= 3 THEN Save32(b6, h.fixedDataSize) ELSE b6

writeSectionInfo(buffer, offset, size) == Save32(Save32(buffer, offset), size)

writeImportInfo(buffer, id, offset) == Save32(Save32(buffer, id), offset)

writeRelocation(buffer, offset, type, section, addend) ==
  Save32(Save8(Save8(Save16(buffer, offset), type), section), addend)

(***************************************************************************)
(* Inputs.  An ELF file is its sections (ELF index i is sections[i + 1]),  *)
(* its symbol table (symbol i is symbols[i + 1]) and the entries of its    *)
(* RELA sections in file order (info = index of the relocated section);    *)
(* a symbol-map file is its lines.  Names of sections are sequences of     *)
(* characters, because the keep rule looks at prefixes.                    *)
(***************************************************************************)
\* type 1 is SHT_PROGBITS
Sect(name, type, flags, align, size, data) ==
  [name |-> name, type |-> type, flags |-> flags, addr_align |-> align,
   size |-> size, data |-> data]

NullSection == Sect(<<>>, 0, 0, 0, 0, <<>>)
\* two branch instructions: 0x48000001 and 0x48000005 (displacement field 4)
TextSection ==
  Sect(<<".", "t", "e", "x", "t">>, 1, 6, 4, 8, <<72, 0, 0, 1, 72, 0, 0, 5>>)
DataSection ==
  Sect(<<".", "d", "a", "t", "a">>, 1, 3, 8, 8, <<1, 2, 3, 4, 5, 6, 7, 8>>)
BssSection == Sect(<<".", "b", "s", "s">>, SHT_NOBITS, 3, 8, 16, <<>>)
CommentSection ==
  Sect(<<".", "c", "o", "m", "m", "e", "n", "t">>, 1, 0, 1, 2, <<65, 66>>)
\* kept through the "NAME." prefix rule, byte aligned, odd size
RodataStrSection ==
  Sect(<<".", "r", "o", "d", "a", "t", "a", ".", "s">>, 1, 2, 1, 3, <<9, 8, 7>>)
\* executable, alignment 0
InitSection ==
  Sect(<<".", "i", "n", "i", "t">>, 1, 6, 0, 4, <<78, 128, 0, 32>>)
\* begins with ".text" but not with ".text.": not kept
TextualSection ==
  Sect(<<".", "t", "e", "x", "t", "u", "a", "l">>, 1, 6, 4, 4, <<96, 0, 0, 0>>)
\* a NOBITS section outside the mask
SbssSection == Sect(<<".", "s", "b", "s", "s">>, SHT_NOBITS, 3, 4, 8, <<>>)
\* widely aligned data
AlignedDataSection ==
  Sect(<<".", "d", "a", "t", "a", ".", "a">>, 1, 3, 32, 1, <<255>>)

SectionCatalogue ==
  <<TextSection, BssSection, RodataStrSection, CommentSection, InitSection,
    TextualSection, AlignedDataSection, SbssSection>>

BaseSections == <<NullSection, TextSection, DataSection, BssSection, CommentSection>>

Sym(name, shndx, value) == [name |-> name, shndx |-> shndx, value |-> value]

BaseSymbols ==
  <<Sym("", 0, 0), Sym("_prolog", 1, 0), Sym("f", 1, 4), Sym("d", 2, 0), Sym("b", 3, 0),
    Sym("c", 4, 0), Sym("foo", 0, 0), Sym("bar", 0, 0), Sym("baz", 0, 0),
    Sym("qux", 0, 0), Sym("nope", 0, 0), Sym("_unresolved", 1, 4)>>

Rela(info, offset, symbol, type, addend) ==
  [info |-> info, offset |-> offset, symbol |-> symbol, type |-> type, addend |-> addend]

\* 0x80020000 as a uint32_t
HugeOffset == MinInt + 131072

\* listed in an order that is not the sorted one; type 11 (R_PPC_REL14) is not
\* among the cases of the encoder's switch
RelaCatalogue ==
  <<Rela(2, 4, 6, R_PPC_ADDR32, 0),
    Rela(2, 0, 2, R_PPC_ADDR32, 0),
    Rela(1, 0, 2, R_PPC_REL24, 0),
    Rela(1, 4, 3, R_PPC_REL24, 0),
    Rela(1, 4, 3, R_PPC_REL32, 4),
    Rela(2, 131072, 7, R_PPC_ADDR32, 8),
    Rela(2, 0, 8, R_PPC_ADDR16_HA, 0),
    Rela(1, 65539, 7, R_PPC_ADDR16_LO, 0),
    Rela(2, HugeOffset, 7, R_PPC_ADDR32, 0),
    Rela(1, 0, 5, R_PPC_REL24, 0),
    Rela(2, 4, 5, R_PPC_ADDR32, 0),
    Rela(2, 4, 9, R_PPC_ADDR32, 0),
    Rela(1, 0, 1, R_PPC_NONE, 0),
    Rela(2, 0, 10, R_PPC_ADDR32, 0),
    Rela(3, 0, 2, R_PPC_ADDR32, 0),
    Rela(2, 0, 99, R_PPC_ADDR32, 0),
    Rela(1, 4, 6, R_PPC_REL24, 0),
    Rela(2, 0, 7, 11, 0)>>

Loc(m, s, a) == [moduleId |-> m, targetSection |-> s, addr |-> a]

SymLine(name, sym) == [kind |-> "symbol", name |-> name, sym |-> sym]

InvalidLine == [kind |-> "invalid", name |-> "", sym |-> Loc(0, 0, 0)]

\* 80001234:foo / 1,2,10:bar / 50,1,20:baz / 0xFFFFFFFF,1,0:qux
MapFile1 ==
  <<SymLine("foo", Loc(0, 0, -2147478988)), SymLine("bar", Loc(1, 2, 16)),
    SymLine("baz", Loc(50, 1, 32)), SymLine("qux", Loc(-1, 1, 0))>>
MapFile2 == <<SymLine("foo", Loc(1, 1, 64))>>
MapFile3 == <<SymLine("foo", Loc(50, 3, 8)), SymLine("foo", Loc(0, 0, 256))>>
MapFile4 == <<InvalidLine, SymLine("bar", Loc(0, 0, 512))>>

FileCatalogue == <<MapFile1, MapFile2, MapFile3, MapFile4>>

Input(version, sections, symbols, relas, mapFiles) ==
  [relVersion |-> version, sections |-> sections, symbols |-> symbols,
   relas |-> relas, mapFiles |-> mapFiles]

\* the sequences of at most n elements of catalogue
SeqsUpTo(catalogue, n) ==
  UNION {{[i \in 1..k |-> catalogue[f[i]]] : f \in [1..k -> 1..Len(catalogue)]} : k \in 0..n}

\* the selections of at most n elements of catalogue, in catalogue order
PicksUpTo(catalogue, n) ==
  UNION {{[i \in 1..k |-> catalogue[f[i]]] :
            f \in {g \in [1..k -> 1..Len(catalogue)] :
                     \A i \in 1..k : \A j \in 1..k : i < j => g[i] < g[j]}} : k \in 0..n}

\* section layouts without relocations
LayoutInputs ==
  {Input(3, <<NullSection>> \o ss, <<Sym("", 0, 0)>>, <<>>, <<MapFile1>>) :
     ss \in SeqsUpTo(SectionCatalogue, MaxSections)}

\* relocations over the base layout
RelaInputs ==
  {Input(3, BaseSections, BaseSymbols, rs, <<MapFile1>>) :
     rs \in PicksUpTo(RelaCatalogue, MaxRelas)}

\* symbol-map files on the command line
MapInputs ==
  {Input(3, BaseSections, BaseSymbols, <<RelaCatalogue[1], RelaCatalogue[6]>>, fs) :
     fs \in SeqsUpTo(FileCatalogue, MaxFiles) \ {<<>>}}

\* the older header versions
VersionInputs ==
  {Input(v, BaseSections, BaseSymbols, rs, <<MapFile1>>) :
     v \in {1, 2}, rs \in {<<>>, <<RelaCatalogue[1], RelaCatalogue[7]>>}}

Inputs == LayoutInputs \cup RelaInputs \cup MapInputs \cup VersionInputs

(***************************************************************************)
(* State of main().                                                        *)
(***************************************************************************)
VARIABLES
  input,                \* the command line and the files it names
  pc,                   \* the phase main() is in
  exitCode,             \* the value main() returned, -1 while it runs
  diagnostics,          \* what was printed, in order
  mapIndex,             \* symbol-map files merged so far
  externalSymbolMap,
  outputBuffer,
  sectionInfoOffset,
  sectionInfoBuffer,
  writtenSections,      \* ELF index -> offset of its data in outputBuffer
  totalBssSize,
  maxAlign,
  maxBssAlign,
  sectionIndex,         \* sections visited by the write loop
  relaIndex,            \* RELA entries visited by the collector
  allRelocations,
  importCount,
  importInfoOffset,
  relocationOffset,
  importInfoBuffer,
  currentModuleID,
  currentSectionIndex,
  currentOffset,
  fixedRelocationsSize,
  sortedRelocations,    \* history: allRelocations as the sort left it
  emitted,              \* history: the relocations written as real entries
  patched               \* history: the early resolutions done

vars ==
  <<input, pc, exitCode, diagnostics, mapIndex, externalSymbolMap, outputBuffer,
    sectionInfoOffset, sectionInfoBuffer, writtenSections, totalBssSize, maxAlign,
    maxBssAlign, sectionIndex, relaIndex, allRelocations, importCount,
    importInfoOffset, relocationOffset, importInfoBuffer, currentModuleID,
    currentSectionIndex, currentOffset, fixedRelocationsSize, sortedRelocations,
    emitted, patched>>

layoutVars ==
  <<outputBuffer, sectionInfoOffset, sectionInfoBuffer, writtenSections, totalBssSize,
    maxAlign, maxBssAlign, sectionIndex>>

encodeVars ==
  <<importCount, importInfoOffset, relocationOffset, importInfoBuffer, currentModuleID,
    currentSectionIndex, currentOffset, fixedRelocationsSize, sortedRelocations,
    emitted, patched>>

Section(i) == input.sections[i + 1]

SectionCount == Len(input.sections)

Init ==
  /\ input \in Inputs
  /\ pc = "maps"
  /\ exitCode = -1
  /\ diagnostics = <<>>
  /\ mapIndex = 0
  /\ externalSymbolMap = <<>>
  /\ outputBuffer = <<>>
  /\ sectionInfoOffset = 0
  /\ sectionInfoBuffer = <<>>
  /\ writtenSections = <<>>
  /\ totalBssSize = 0
  /\ maxAlign = 2
  /\ maxBssAlign = 2
  /\ sectionIndex = 0
  /\ relaIndex = 0
  /\ allRelocations = <<>>
  /\ importCount = 0
  /\ importInfoOffset = 0
  /\ relocationOffset = 0
  /\ importInfoBuffer = <<>>
  /\ currentModuleID = NoneYet
  /\ currentSectionIndex = NoneYet
  /\ currentOffset = 0
  /\ fixedRelocationsSize = 0
  /\ sortedRelocations = <<>>
  /\ emitted = <<>>
  /\ patched = <<>>

(***************************************************************************)
(* Symbol maps.                                                            *)
(***************************************************************************)
\* m[key] = value, inserting the key when it is new
MapPut(m, key, value) ==
  [k \in DOMAIN m \cup {key} |-> IF k = key THEN value ELSE m[k]]

RECURSIVE loadSymbolMapFrom(_, _, _)
loadSymbolMapFrom(lines, i, outputMap) ==
  IF i > Len(lines) THEN outputMap
  ELSE loadSymbolMapFrom(lines, i + 1,
         IF lines[i].kind = "symbol"
           THEN MapPut(outputMap, lines[i].name, lines[i].sym)
           ELSE outputMap)

loadSymbolMap(lines) == loadSymbolMapFrom(lines, 1, <<>>)

InvalidLines(lines) ==
  [i \in 1..Cardinality({j \in 1..Len(lines) : lines[j].kind = "invalid"}) |->
     "Invalid symbol"]

\* std::map::merge: an element of source whose key target already has stays behind
MapMerge(target, source) ==
  [k \in DOMAIN target \cup DOMAIN source |->
     IF k \in DOMAIN target THEN target[k] ELSE source[k]]

LoadSymbolMap ==
  /\ pc = "maps"
  /\ mapIndex < Len(input.mapFiles)
  /\ LET lines == input.mapFiles[mapIndex + 1]
     IN  /\ externalSymbolMap' = MapMerge(externalSymbolMap, loadSymbolMap(lines))
         /\ diagnostics' = diagnostics \o InvalidLines(lines)
  /\ mapIndex' = mapIndex + 1
  /\ UNCHANGED <<input, pc, exitCode, relaIndex, allRelocations>>
  /\ UNCHANGED layoutVars
  /\ UNCHANGED encodeVars

(***************************************************************************)
(* Section layout.                                                         *)
(***************************************************************************)
cRelSectionMask ==
  <<<<".", "i", "n", "i", "t">>, <<".", "t", "e", "x", "t">>,
    <<".", "c", "t", "o", "r", "s">>, <<".", "d", "t", "o", "r", "s">>,
    <<".", "r", "o", "d", "a", "t", "a">>, <<".", "d", "a", "t", "a">>,
    <<".", "b", "s", "s">>>>

\* name.find(prefix) == 0
StartsWith(name, prefix) ==
  /\ Len(prefix) <= Len(name)
  /\ \A i \in 1..Len(prefix) : name[i] = prefix[i]

ShouldKeep(section) ==
  \E k \in 1..Len(cRelSectionMask) :
     \/ cRelSectionMask[k] = section.name
     \/ StartsWith(section.name, cRelSectionMask[k] \o <<".">>)

Max(a, b) == IF a >= b THEN a ELSE b

\* a layout that forgets the alignment padding
RequiredPaddingNone(size, align) == 0

\* ((size + align - 1) & ~(align - 1)) - size
RequiredPadding(size, align) == And32(size + align - 1, 0 - align) - size

\* the placeholder header and one empty section-info row per section
WritePlaceholders ==
  /\ pc = "maps"
  /\ mapIndex = Len(input.mapFiles)
  /\ LET header == writeModuleHeader(<<>>, input.relVersion, ZeroHeader)
     IN  /\ sectionInfoOffset' = Len(header)
         /\ outputBuffer' = header \o Zeros(EntrySize * SectionCount)
  /\ pc' = "sections"
  /\ UNCHANGED <<input, exitCode, diagnostics, mapIndex, externalSymbolMap,
                 sectionInfoBuffer, writtenSections, totalBssSize, maxAlign,
                 maxBssAlign, sectionIndex, relaIndex, allRelocations>>
  /\ UNCHANGED encodeVars

\* one pass of the loop over inputElf.sections
WriteSection ==
  /\ pc = "sections"
  /\ sectionIndex < SectionCount
  /\ LET section == Section(sectionIndex)
     IN  IF ShouldKeep(section)
         THEN IF section.type = SHT_NOBITS
              THEN /\ maxBssAlign' = Max(maxBssAlign, section.addr_align)
                   /\ totalBssSize' = totalBssSize + section.size
                   /\ sectionInfoBuffer' = writeSectionInfo(sectionInfoBuffer, 0, section.size)
                   /\ UNCHANGED <<outputBuffer, writtenSections, maxAlign>>
              ELSE LET align == Max(section.addr_align, 2)
                       padding == RequiredPadding(Len(outputBuffer), align)
                       padded == outputBuffer \o Zeros(padding)
                       offset == Len(padded)
                       encodedOffset ==
                         IF And32(section.flags, SHF_EXECINSTR) # 0
                           THEN Or32(offset, 1) ELSE offset
                   IN  /\ maxAlign' = Max(maxAlign, align)
                       /\ sectionInfoBuffer' =
                            writeSectionInfo(sectionInfoBuffer, encodedOffset, section.size)
                       /\ outputBuffer' = padded \o section.data
                       /\ writtenSections' = MapPut(writtenSections, sectionIndex, offset)
                       /\ UNCHANGED <<maxBssAlign, totalBssSize>>
         ELSE /\ sectionInfoBuffer' = writeSectionInfo(sectionInfoBuffer, 0, 0)
              /\ UNCHANGED <<outputBuffer, writtenSections, totalBssSize, maxAlign,
                             maxBssAlign>>
  /\ sectionIndex' = sectionIndex + 1
  /\ UNCHANGED <<input, pc, exitCode, diagnostics, mapIndex, externalSymbolMap,
                 sectionInfoOffset, relaIndex, allRelocations>>
  /\ UNCHANGED encodeVars

\* std::copy of the section-info rows into their reserved place
FillSectionInfo ==
  /\ pc = "sections"
  /\ sectionIndex = SectionCount
  /\ outputBuffer' = CopyAt(outputBuffer, sectionInfoOffset, sectionInfoBuffer)
  /\ pc' = "collect"
  /\ UNCHANGED <<input, exitCode, diagnostics, mapIndex, externalSymbolMap,
                 sectionInfoOffset, sectionInfoBuffer, writtenSections, totalBssSize,
                 maxAlign, maxBssAlign, sectionIndex, relaIndex, allRelocations>>
  /\ UNCHANGED encodeVars

(***************************************************************************)
(* Relocation collector.                                                   *)
(***************************************************************************)
Written(i) == i \in DOMAIN writtenSections

\* symbols.get_symbol(index, ...) succeeds
HasSymbol(index) == index + 1 \in DOMAIN input.symbols

Symbol(index) == input.symbols[index + 1]

\* the entry is looked at: its section was written and it is not R_PPC_NONE
Processed(rela) == Written(rela.info) /\ rela.type # R_PPC_NONE

Relocation(module, section, offset, targetSection, addend, type) ==
  [moduleID |-> module, section |-> section, offset |-> offset,
   targetSection |-> targetSection, addend |-> addend, type |-> type]

\* one RELA entry
CollectRelocation ==
  /\ pc = "collect"
  /\ relaIndex < Len(input.relas)
  /\ LET rela == input.relas[relaIndex + 1]
     IN  /\ Processed(rela) => HasSymbol(rela.symbol)
         /\ IF ~Processed(rela)
            THEN UNCHANGED <<allRelocations, diagnostics>>
            ELSE LET symbol == Symbol(rela.symbol)
                 IN  IF symbol.shndx # 0
                     THEN LET targetSection == symbol.shndx % 256
                          IN /\ allRelocations' = Append(allRelocations,
                                  Relocation(moduleID, rela.info, rela.offset, targetSection,
                                             Add32(rela.addend, symbol.value), rela.type % 256))
                             /\ diagnostics' =
                                  IF ~Written(targetSection)
                                     /\ Section(targetSection).type # SHT_NOBITS
                                  THEN Append(diagnostics, "unwritten section")
                                  ELSE diagnostics
                     ELSE IF symbol.name \in DOMAIN externalSymbolMap
                          THEN LET it == externalSymbolMap[symbol.name]
                               IN /\ allRelocations' = Append(allRelocations,
                                       Relocation(it.moduleId, rela.info, rela.offset,
                                                  it.targetSection % 256,
                                                  Add32(rela.addend, it.addr), rela.type % 256))
                                  /\ UNCHANGED diagnostics
                          ELSE /\ diagnostics' = Append(diagnostics, "Unresolved external symbol")
                               /\ UNCHANGED allRelocations
  /\ relaIndex' = relaIndex + 1
  /\ UNCHANGED <<input, pc, exitCode, mapIndex, externalSymbolMap>>
  /\ UNCHANGED layoutVars
  /\ UNCHANGED encodeVars

\* the symbol of a RELA entry is not in the symbol table: return 1
SymbolNotFound ==
  /\ pc = "collect"
  /\ relaIndex < Len(input.relas)
  /\ LET rela == input.relas[relaIndex + 1]
     IN  Processed(rela) /\ ~HasSymbol(rela.symbol)
  /\ diagnostics' = Append(diagnostics, "Unable to find symbol")
  /\ pc' = "exit"
  /\ exitCode' = 1
  /\ UNCHANGED <<input, mapIndex, externalSymbolMap, relaIndex, allRelocations>>
  /\ UNCHANGED layoutVars
  /\ UNCHANGED encodeVars

(***************************************************************************)
(* Ordering, import count and the reserved import-info slots.              *)
(***************************************************************************)
getModuleDelay(id) == IF id = 0 \/ id = moduleID THEN 1 ELSE 0

\* the comparator given to std::sort
RelocationLess(left, right) ==
  LET delayLeft == getModuleDelay(left.moduleID)
      delayRight == getModuleDelay(right.moduleID)
  IN  IF delayLeft # delayRight
      THEN delayLeft < delayRight
      ELSE \/ ULess(left.moduleID, right.moduleID)
           \/ /\ left.moduleID = right.moduleID
              /\ \/ ULess(left.section, right.section)
                 \/ /\ left.section = right.section
                    /\ ULess(left.offset, right.offset)

IsSorted(list) ==
  \A i \in 1..Len(list) : \A j \in 1..Len(list) :
     i < j => ~RelocationLess(list[j], list[i])

\* std::sort is not stable: every sorted arrangement is a possible result
SortResults(list) ==
  {s \in {[i \in 1..Len(list) |-> list[p[i]]] :
            p \in {q \in [1..Len(list) -> 1..Len(list)] :
                     \A i \in 1..Len(list) : \E j \in 1..Len(list) : q[j] = i}} :
     IsSorted(s)}

RECURSIVE CountModulesFrom(_, _, _)
CountModulesFrom(list, i, lastModuleID) ==
  IF i > Len(list) THEN 0
  ELSE IF lastModuleID # list[i].moduleID
       THEN 1 + CountModulesFrom(list, i + 1, list[i].moduleID)
       ELSE CountModulesFrom(list, i + 1, lastModuleID)

CountModules(list) == CountModulesFrom(list, 1, NoneYet)

\* 8 - outputBuffer.size() % 8
ImportPadding(size) == 8 - (size % 8)

\* sort, count the modules, pad, reserve the import-info table
SortAndReserve ==
  /\ pc = "collect"
  /\ relaIndex = Len(input.relas)
  /\ \E sorted \in SortResults(allRelocations) :
        /\ allRelocations' = sorted
        /\ sortedRelocations' = sorted
        /\ importCount' = CountModules(sorted)
  /\ LET padded == outputBuffer \o Zeros(ImportPadding(Len(outputBuffer)))
         reserved == padded \o Zeros(EntrySize * importCount')
     IN  /\ importInfoOffset' = Len(padded)
         /\ relocationOffset' = Len(reserved)
         /\ outputBuffer' = reserved
  /\ pc' = "encode"
  /\ UNCHANGED <<input, exitCode, diagnostics, mapIndex, externalSymbolMap,
                 sectionInfoOffset, sectionInfoBuffer, writtenSections, totalBssSize,
                 maxAlign, maxBssAlign, sectionIndex, relaIndex, importInfoBuffer,
                 currentModuleID, currentSectionIndex, currentOffset,
                 fixedRelocationsSize, emitted, patched>>

(***************************************************************************)
(* Relocation stream encoder.                                              *)
(***************************************************************************)
IsEarly(rel) ==
  rel.moduleID = moduleID /\ (rel.type = R_PPC_REL24 \/ rel.type = R_PPC_REL32)

\* the word an early resolution leaves where patchedData was read
PatchedWord(type, patchedData, delta) ==
  IF type = R_PPC_REL24
    THEN Or32(patchedData, And32(delta, Rel24Mask))
    ELSE delta

\* a patch applied at the offset taken in the target section
PatchOffsetInTarget(rel) == Add32(writtenSections[rel.targetSection], rel.offset)

\* int offset = writtenSections.at(section) + nextRel.offset
PatchOffset(rel) == Add32(writtenSections[rel.section], rel.offset)

\* int delta = writtenSections.at(targetSection) + nextRel.addend - offset
PatchDelta(rel, offset) ==
  Sub32(Add32(writtenSections[rel.targetSection], rel.addend), offset)

\* the relocation is applied now, to the section bytes already written: the word is
\* loaded from the four bytes at offset and the patched word is copied back over them
EarlyResolve ==
  /\ pc = "encode"
  /\ allRelocations # <<>>
  /\ LET nextRel == Head(allRelocations)
     IN  /\ IsEarly(nextRel)
         /\ Written(nextRel.section) /\ Written(nextRel.targetSection)
         /\ LET offset == PatchOffset(nextRel)
                delta == PatchDelta(nextRel, offset)
                patchedData == Load32(outputBuffer, offset)
                word == PatchedWord(nextRel.type, patchedData, delta)
            IN  /\ outputBuffer' = CopyAt(outputBuffer, offset, Save32(<<>>, word))
                /\ patched' = Append(patched,
                     [rel |-> nextRel, before |-> patchedData,
                      after |-> Load32(outputBuffer', offset)])
  /\ allRelocations' = Tail(allRelocations)
  /\ UNCHANGED <<input, pc, exitCode, diagnostics, mapIndex, externalSymbolMap,
                 sectionInfoOffset, sectionInfoBuffer, writtenSections, totalBssSize,
                 maxAlign, maxBssAlign, sectionIndex, relaIndex, importCount,
                 importInfoOffset, relocationOffset, importInfoBuffer, currentModuleID,
                 currentSectionIndex, currentOffset, fixedRelocationsSize,
                 sortedRelocations, emitted>>

\* writtenSections.at() throws std::out_of_range, which nothing catches
EarlyResolveThrows ==
  /\ pc = "encode"
  /\ allRelocations # <<>>
  /\ LET nextRel == Head(allRelocations)
     IN  /\ IsEarly(nextRel)
         /\ ~(Written(nextRel.section) /\ Written(nextRel.targetSection))
  /\ pc' = "terminated"
  /\ UNCHANGED <<input, exitCode, diagnostics, mapIndex, externalSymbolMap, relaIndex,
                 allRelocations>>
  /\ UNCHANGED layoutVars
  /\ UNCHANGED encodeVars

\* while (targetDelta > 0xFFFF): one R_DOLPHIN_NOP per pass
RECURSIVE Saturate(_, _)
Saturate(buffer, targetDelta) ==
  IF targetDelta > MaxDelta
    THEN Saturate(writeRelocation(buffer, MaxDelta, R_DOLPHIN_NOP, 0, 0),
                  targetDelta - MaxDelta)
    ELSE [buffer |-> buffer, targetDelta |-> targetDelta]

\* the relocation is written to the stream
EmitRelocation ==
  /\ pc = "encode"
  /\ allRelocations # <<>>
  /\ LET nextRel == Head(allRelocations)
         moduleChange == currentModuleID # nextRel.moduleID
         ended == IF moduleChange /\ currentModuleID # NoneYet
                    THEN writeRelocation(outputBuffer, 0, R_DOLPHIN_END, 0, 0)
                    ELSE outputBuffer
         sectionBefore == IF moduleChange THEN NoneYet ELSE currentSectionIndex
         sectionChange == sectionBefore # nextRel.section
         opened == IF sectionChange
                     THEN writeRelocation(ended, 0, R_DOLPHIN_SECTION, nextRel.section, 0)
                     ELSE ended
         offsetBefore == IF sectionChange THEN 0 ELSE currentOffset
         inRange == Saturate(opened, Sub32(nextRel.offset, offsetBefore))
     IN  /\ ~IsEarly(nextRel)
         /\ fixedRelocationsSize' =
              IF moduleChange
                 /\ getModuleDelay(nextRel.moduleID) > getModuleDelay(currentModuleID)
              THEN Len(ended) - relocationOffset
              ELSE fixedRelocationsSize
         /\ importInfoBuffer' =
              IF moduleChange
              THEN writeImportInfo(importInfoBuffer, nextRel.moduleID, Len(ended))
              ELSE importInfoBuffer
         /\ currentModuleID' = nextRel.moduleID
         /\ currentSectionIndex' = nextRel.section
         /\ diagnostics' =
              IF nextRel.type \in SupportedTypes THEN diagnostics
              ELSE Append(diagnostics, "Unsupported relocation type")
         /\ outputBuffer' = writeRelocation(inRange.buffer, inRange.targetDelta,
                               nextRel.type, nextRel.targetSection, nextRel.addend)
         /\ currentOffset' = nextRel.offset
         /\ emitted' = Append(emitted,
              [rel |-> nextRel, at |-> Len(inRange.buffer),
               targetDelta |-> inRange.targetDelta])
  /\ allRelocations' = Tail(allRelocations)
  /\ UNCHANGED <<input, pc, exitCode, mapIndex, externalSymbolMap, sectionInfoOffset,
                 sectionInfoBuffer, writtenSections, totalBssSize, maxAlign, maxBssAlign,
                 sectionIndex, relaIndex, importCount, importInfoOffset, relocationOffset,
                 sortedRelocations, patched>>

(***************************************************************************)
(* Final END, import-info table and header.                                *)
(***************************************************************************)
RECURSIVE FindSymbolFrom(_, _)
FindSymbolFrom(name, i) ==
  IF i > Len(input.symbols) THEN [sectionIndex |-> 0, offset |-> 0]
  ELSE IF input.symbols[i].name = name
       THEN [sectionIndex |-> input.symbols[i].shndx, offset |-> input.symbols[i].value]
       ELSE FindSymbolFrom(name, i + 1)

findSymbolSectionAndOffset(name) == FindSymbolFrom(name, 1)

FinalHeader(fixedDataSize) ==
  LET prolog == findSymbolSectionAndOffset("_prolog")
      epilog == findSymbolSectionAndOffset("_epilog")
      unresolved == findSymbolSectionAndOffset("_unresolved")
  IN  [id |-> moduleID, sectionCount |-> SectionCount,
       sectionInfoOffset |-> sectionInfoOffset, totalBssSize |-> totalBssSize,
       relocationOffset |-> relocationOffset, importInfoOffset |-> importInfoOffset,
       importInfoSize |-> Len(importInfoBuffer),
       prologSection |-> prolog.sectionIndex, epilogSection |-> epilog.sectionIndex,
       unresolvedSection |-> unresolved.sectionIndex,
       prologOffset |-> prolog.offset, epilogOffset |-> epilog.offset,
       unresolvedOffset |-> unresolved.offset,
       maxAlign |-> maxAlign, maxBssAlign |-> maxBssAlign,
       fixedDataSize |-> fixedDataSize]

\* an encoder that forgets the case of a last module that is not delayed
FinalFixedSizeStale(size) == fixedRelocationsSize

\* fixedRelocationsSize once the last R_DOLPHIN_END is written
FinalFixedSize(size) ==
  IF getModuleDelay(currentModuleID) = 0
    THEN size - relocationOffset
    ELSE fixedRelocationsSize

Finish ==
  /\ pc = "encode"
  /\ allRelocations = <<>>
  /\ LET ended == writeRelocation(outputBuffer, 0, R_DOLPHIN_END, 0, 0)
         fixed == FinalFixedSize(Len(ended))
         imports == CopyAt(ended, importInfoOffset, importInfoBuffer)
         header == writeModuleHeader(<<>>, input.relVersion,
                                     FinalHeader(relocationOffset + fixed))
     IN  /\ fixedRelocationsSize' = fixed
         /\ outputBuffer' = CopyAt(imports, 0, header)
  /\ pc' = "done"
  /\ exitCode' = 0
  /\ UNCHANGED <<input, diagnostics, mapIndex, externalSymbolMap, sectionInfoOffset,
                 sectionInfoBuffer, writtenSections, totalBssSize, maxAlign, maxBssAlign,
                 sectionIndex, relaIndex, allRelocations, importCount, importInfoOffset,
                 relocationOffset, importInfoBuffer, currentModuleID,
                 currentSectionIndex, currentOffset, sortedRelocations, emitted, patched>>

Next ==
  \/ LoadSymbolMap
  \/ WritePlaceholders
  \/ WriteSection
  \/ FillSectionInfo
  \/ CollectRelocation
  \/ SymbolNotFound
  \/ SortAndReserve
  \/ EarlyResolve
  \/ EarlyResolveThrows
  \/ EmitRelocation
  \/ Finish

Spec == Init /\ [][Next]_vars

(***************************************************************************)
(* Reading the output back, as the loader does.                            *)
(***************************************************************************)
Encoding == pc \in {"encode", "done"}

Done == pc = "done"

EntryAt(off) ==
  [offset |-> Load16(outputBuffer, off), type |-> outputBuffer[off + 3],
   section |-> outputBuffer[off + 4], addend |-> Load32(outputBuffer, off + 4)]

\* the entries of the relocation stream written so far
StreamLen == (Len(outputBuffer) - relocationOffset) \div EntrySize

StreamEntry(k) == EntryAt(relocationOffset + EntrySize * k)

\* the cursor at each real entry from entry k on, decoding with the cursor at `cursor`
RECURSIVE CursorsFrom(_, _)
CursorsFrom(k, cursor) ==
  IF k >= StreamLen THEN <<>>
  ELSE LET entry == StreamEntry(k)
       IN  IF entry.type = R_DOLPHIN_SECTION THEN CursorsFrom(k + 1, 0)
           ELSE IF entry.type = R_DOLPHIN_END THEN CursorsFrom(k + 1, cursor)
           ELSE IF entry.type = R_DOLPHIN_NOP
                THEN CursorsFrom(k + 1, cursor + entry.offset)
                ELSE <<cursor + entry.offset>> \o CursorsFrom(k + 1, cursor + entry.offset)

\* the rows of the import-info table as the encoder completed them
ImportCountDone == Len(importInfoBuffer) \div EntrySize

ImportId(b) == Load32(importInfoBuffer, EntrySize * (b - 1))

ImportOffset(b) == Load32(importInfoBuffer, EntrySize * (b - 1) + 4)

\* where the block of import row b ends
BlockEnd(b) == IF b < ImportCountDone THEN ImportOffset(b + 1) ELSE Len(outputBuffer)

IsForeign(id) == id # 0 /\ id # moduleID

\* the value the final header carries as fixedDataSize
FixedDataSize == relocationOffset + fixedRelocationsSize

(***************************************************************************)
(* C1: decoding the stream with a running cursor (SECTION resets it, NOP   *)
(* and real entries advance it by their offset field) puts the cursor, at  *)
(* every real entry, on the original offset of its relocation.             *)
(***************************************************************************)
CursorMatchesOffsets ==
  Encoding => CursorsFrom(0, 0) = [j \in 1..Len(emitted) |-> emitted[j].rel.offset]

(***************************************************************************)
(* C9: the offset passed for every emitted entry lies in 0..0xFFFF.        *)
(***************************************************************************)
OffsetsFitField ==
  \A j \in 1..Len(emitted) : emitted[j].targetDelta \in 0..MaxDelta

(***************************************************************************)
(* C2: fixedDataSize is relocationOffset + fixedRelocationsSize, is within *)
(* the buffer, every real entry for a foreign module ends before it, every *)
(* real entry for module 0 or the own module starts at or after it, and    *)
(* every entry at or after it lies in a block of module 0 or the own       *)
(* module.                                                                 *)
(***************************************************************************)
FixedDataSizeIsBoundary ==
  Done =>
    /\ input.relVersion >= 3 => Load32(outputBuffer, 72) = FixedDataSize
    /\ FixedDataSize <= Len(outputBuffer)
    /\ FixedDataSize >= relocationOffset
    /\ \A j \in 1..Len(emitted) :
          IF IsForeign(emitted[j].rel.moduleID)
            THEN emitted[j].at + EntrySize <= FixedDataSize
            ELSE emitted[j].at >= FixedDataSize
    /\ \A b \in 1..ImportCountDone :
          IsForeign(ImportId(b)) => BlockEnd(b) <= FixedDataSize
    /\ \A k \in 0..(StreamLen - 1) :
          relocationOffset + EntrySize * k >= FixedDataSize =>
            \E b \in 1..ImportCountDone :
               /\ ~IsForeign(ImportId(b))
               /\ ImportOffset(b) <= relocationOffset + EntrySize * k
               /\ relocationOffset + EntrySize * k < BlockEnd(b)

\* foreign, DOL and self relocations are all in the stream, after an early resolution
FixedDataSizeWitness ==
  /\ Done
  /\ patched # <<>>
  /\ \E j \in 1..Len(emitted) : IsForeign(emitted[j].rel.moduleID)
  /\ \E j \in 1..Len(emitted) : emitted[j].rel.moduleID = 0
  /\ \E j \in 1..Len(emitted) : emitted[j].rel.moduleID = moduleID
  /\ FixedDataSize > relocationOffset
  /\ FixedDataSize < Len(outputBuffer)

(***************************************************************************)
(* C3: importCount, the number of reserved import-info slots, is the       *)
(* number of distinct module ids the emitted stream refers to; the         *)
(* completed import-info rows fill every reserved slot, so                 *)
(* importInfoOffset + importInfoSize = relocationOffset.                   *)
(***************************************************************************)
ImportCountMatchesStream ==
  Done =>
    /\ importCount = Cardinality({emitted[j].rel.moduleID : j \in 1..Len(emitted)})
    /\ ImportCountDone = importCount
    /\ importInfoOffset + Len(importInfoBuffer) = relocationOffset

(***************************************************************************)
(* Section-info rows as they stand in the output buffer.                   *)
(***************************************************************************)
AfterLayout == pc \in {"collect", "encode", "done", "exit", "terminated"}

RowOffset(i) == Load32(outputBuffer, sectionInfoOffset + EntrySize * i)

RowSize(i) == Load32(outputBuffer, sectionInfoOffset + EntrySize * i + 4)

\* the recorded offset with bit 0 masked
DataOffset(i) == RowOffset(i) - (RowOffset(i) % 2)

KeptData(i) == ShouldKeep(Section(i)) /\ Section(i).type # SHT_NOBITS

Sections == 0..(SectionCount - 1)

\* byte position pos of the buffer lies in a word an early resolution patched
InPatchedWord(pos) ==
  \E j \in 1..Len(patched) :
     LET start == Add32(writtenSections[patched[j].rel.section], patched[j].rel.offset)
     IN  pos >= start /\ pos < start + 4

(***************************************************************************)
(* C4 as claimed: in the final buffer the bytes of every kept non-BSS      *)
(* section, at the recorded offset (bit 0 masked) and for the recorded     *)
(* size, are the input bytes of the section.                               *)
(***************************************************************************)
SectionBytesVerbatim ==
  Done =>
    \A i \in Sections :
       KeptData(i) =>
         /\ RowSize(i) = Len(Section(i).data)
         /\ \A k \in 1..RowSize(i) : outputBuffer[DataOffset(i) + k] = Section(i).data[k]

(***************************************************************************)
(* C4 as amended: once the sections are laid out, every byte of a kept     *)
(* non-BSS section that lies outside the 32-bit words patched by early     *)
(* resolution is the input byte, at the recorded offset (bit 0 masked).    *)
(***************************************************************************)
SectionBytesVerbatimExceptPatched ==
  AfterLayout =>
    \A i \in Sections :
       KeptData(i) =>
         /\ RowSize(i) = Len(Section(i).data)
         /\ \A k \in 1..RowSize(i) :
               ~InPatchedWord(DataOffset(i) + k - 1) =>
                 outputBuffer[DataOffset(i) + k] = Section(i).data[k]

\* a finished run in which early resolution changed a byte of a section
SectionBytesWitness ==
  /\ Done
  /\ patched # <<>>
  /\ emitted # <<>>
  /\ \E i \in Sections :
        /\ KeptData(i)
        /\ \E k \in 1..RowSize(i) : outputBuffer[DataOffset(i) + k] # Section(i).data[k]
        /\ \E k \in 1..RowSize(i) : ~InPatchedWord(DataOffset(i) + k - 1)

(***************************************************************************)
(* C5: when every relocation is a self R_PPC_REL24 or R_PPC_REL32 the      *)
(* stream is the final R_DOLPHIN_END alone, and each patched word encodes  *)
(* delta = (target relOffset + addend) - (section relOffset + offset)      *)
(* modulo 2^32: the whole word for REL32; for REL24 the displacement field *)
(* is delta & 0x03FFFFFC and the other bits are as before.                 *)
(***************************************************************************)
EarlyResolutionEncodesDelta ==
  (Done /\ \A j \in 1..Len(sortedRelocations) : IsEarly(sortedRelocations[j])) =>
    /\ emitted = <<>>
    /\ StreamLen = 1
    /\ StreamEntry(0).type = R_DOLPHIN_END
    /\ Len(patched) = Len(sortedRelocations)
    /\ \A j \in 1..Len(patched) :
          LET rel == patched[j].rel
              delta == Sub32(Add32(writtenSections[rel.targetSection], rel.addend),
                             Add32(writtenSections[rel.section], rel.offset))
          IN  IF rel.type = R_PPC_REL32
              THEN patched[j].after = delta
              ELSE /\ And32(patched[j].after, Rel24Mask) = And32(delta, Rel24Mask)
                   /\ And32(patched[j].after, (0 - Rel24Mask) - 1)
                        = And32(patched[j].before, (0 - Rel24Mask) - 1)

(***************************************************************************)
(* C6: the merged symbol map is last-wins: every name has the location     *)
(* given by the last line defining it in the last file defining it.        *)
(***************************************************************************)
Defines(file, name) ==
  \E l \in 1..Len(file) : file[l].kind = "symbol" /\ file[l].name = name

LastOf(S) == CHOOSE x \in S : \A y \in S : y <= x

LastDefinition(name) ==
  LET file == input.mapFiles[LastOf({f \in 1..Len(input.mapFiles) :
                                       Defines(input.mapFiles[f], name)})]
  IN  file[LastOf({l \in 1..Len(file) :
                     file[l].kind = "symbol" /\ file[l].name = name})].sym

DefinedNames ==
  {input.mapFiles[f][l].name :
     <<f, l>> \in {<<g, m>> \in (1..Len(input.mapFiles)) \X (1..4) :
                     m <= Len(input.mapFiles[g]) /\ input.mapFiles[g][m].kind = "symbol"}}

MergeIsLastWins ==
  mapIndex = Len(input.mapFiles) =>
    \A name \in DefinedNames :
       /\ name \in DOMAIN externalSymbolMap
       /\ externalSymbolMap[name] = LastDefinition(name)

(***************************************************************************)
(* C7: a self-relocation whose target section was not written (and is not  *)
(* NOBITS) never ends the run: main() is not terminated on such an entry.  *)
(***************************************************************************)
UnwrittenTargetIsNotFatal ==
  pc = "terminated" =>
    LET rel == Head(allRelocations)
    IN  ~(/\ rel.moduleID = moduleID
          /\ ~Written(rel.targetSection)
          /\ Section(rel.targetSection).type # SHT_NOBITS)

(***************************************************************************)
(* C8: the import-info rows are ordered foreign modules by ascending id,   *)
(* then module 0, then the own module (so no id heads two blocks); every   *)
(* emitted relocation lies in the block of its module; every block ends    *)
(* with its only R_DOLPHIN_END; fixedRelocationsSize is where the first    *)
(* block of module 0 or the own module starts, or the whole stream when    *)
(* there is none.                                                          *)
(***************************************************************************)
IdBefore(x, y) ==
  \/ getModuleDelay(x) < getModuleDelay(y)
  \/ getModuleDelay(x) = getModuleDelay(y) /\ ULess(x, y)

DelayedBlocks == {b \in 1..ImportCountDone : ~IsForeign(ImportId(b))}

ModuleBlocksOrdered ==
  Done =>
    /\ \A a \in 1..ImportCountDone : \A b \in 1..ImportCountDone :
          a < b => IdBefore(ImportId(a), ImportId(b))
    /\ \A j \in 1..Len(emitted) :
          \E b \in 1..ImportCountDone :
             /\ ImportId(b) = emitted[j].rel.moduleID
             /\ ImportOffset(b) <= emitted[j].at
             /\ emitted[j].at < BlockEnd(b)
    /\ \A b \in 1..ImportCountDone :
          \A k \in 0..(StreamLen - 1) :
             LET at == relocationOffset + EntrySize * k
             IN  (ImportOffset(b) <= at /\ at < BlockEnd(b)) =>
                   ((StreamEntry(k).type = R_DOLPHIN_END) <=> (at + EntrySize = BlockEnd(b)))
    /\ fixedRelocationsSize =
         IF DelayedBlocks = {}
           THEN Len(outputBuffer) - relocationOffset
           ELSE ImportOffset(CHOOSE b \in DelayedBlocks : \A c \in DelayedBlocks : b <= c)
                  - relocationOffset

(***************************************************************************)
(* C10: the section-info table has one row per ELF section, in index       *)
(* order: (0, 0) for a section not kept, (0, size) for a kept NOBITS       *)
(* section, (relOffset | e, size) for a kept section with data, where      *)
(* relOffset is the offset of the data, a multiple of max(addrAlign, 2),   *)
(* and e = 1 exactly for SHF_EXECINSTR.                                    *)
(***************************************************************************)
SectionInfoRows ==
  AfterLayout =>
    /\ Len(sectionInfoBuffer) = EntrySize * SectionCount
    /\ \A i \in Sections :
          LET section == Section(i)
              executable == (section.flags \div SHF_EXECINSTR) % 2 = 1
          IN  IF ~ShouldKeep(section) THEN RowOffset(i) = 0 /\ RowSize(i) = 0
              ELSE IF section.type = SHT_NOBITS
                   THEN RowOffset(i) = 0 /\ RowSize(i) = section.size
                   ELSE /\ RowSize(i) = section.size
                        /\ Written(i)
                        /\ RowOffset(i) = writtenSections[i] + (IF executable THEN 1 ELSE 0)
                        /\ RowOffset(i) % 2 = (IF executable THEN 1 ELSE 0)
                        /\ DataOffset(i) = writtenSections[i]
                        /\ writtenSections[i] % Max(section.addr_align, 2) = 0
                        /\ writtenSections[i] >= sectionInfoOffset + EntrySize * SectionCount
                        /\ writtenSections[i] + section.size <= Len(outputBuffer)

\* a finished run with an executable, a plain, a NOBITS and a dropped section
SectionInfoWitness ==
  /\ Done
  /\ patched # <<>>
  /\ \E i \in Sections : KeptData(i) /\ RowOffset(i) % 2 = 1 /\ RowSize(i) > 0
  /\ \E i \in Sections : KeptData(i) /\ RowOffset(i) % 2 = 0 /\ RowOffset(i) > 0
  /\ \E i \in Sections :
        ShouldKeep(Section(i)) /\ Section(i).type = SHT_NOBITS /\ RowSize(i) > 0
  /\ \E i \in Sections : ~ShouldKeep(Section(i)) /\ Section(i).size > 0

(***************************************************************************)
(* Padding before the import-info table.                                   *)
(***************************************************************************)
\* where the data of the sections ends: the size of the buffer after the section loop
SectionDataEnd ==
  LET ends == {sectionInfoOffset + EntrySize * SectionCount}
                \cup {DataOffset(i) + RowSize(i) : i \in {j \in Sections : KeptData(j)}}
  IN  CHOOSE e \in ends : \A other \in ends : other <= e

(***************************************************************************)
(* C11: the padding between the end of the section data and the           *)
(* import-info table rounds the buffer up to the next 8-byte boundary:    *)
(* importInfoOffset is the smallest multiple of 8 that is at least the    *)
(* size of the buffer after the section data, the 0 to 7 bytes added are  *)
(* zero, and none is added when the size is a multiple of 8 already.      *)
(***************************************************************************)
ImportPaddingRoundsUp ==
  Encoding =>
    /\ importInfoOffset % 8 = 0
    /\ importInfoOffset >= SectionDataEnd
    /\ importInfoOffset - SectionDataEnd <= 7
    /\ \A pos \in (SectionDataEnd + 1)..importInfoOffset : outputBuffer[pos] = 0

====
